---- MODULE Spec2Model ----
(***************************************************************************)
(* Model of the QR code API: the URL <-> filename codec, the HATEOAS link  *)
(* builder (app/utils/common.py), the three endpoints                      *)
(* (app/routers/qr_code.py) and the store helpers                          *)
(* (app/services/qr_service.py) over a directory of files.                 *)
(*                                                                         *)
(* A Python str is a sequence of code points, a bytes object a sequence of *)
(* integers 0..255.  A raised exception is a record with ok = FALSE.       *)
(***************************************************************************)
EXTENDS Integers, Sequences, FiniteSets, TLC

(***************************************************************************)
(* Text: literals are written as tuples of one-character strings.          *)
(***************************************************************************)
ASCII ==
    << " ", "!", "dquote", "#", "$", "%", "&", "'", "(", ")", "*", "+", ",", "-", ".", "/",
       "0", "1", "2", "3", "4", "5", "6", "7", "8", "9", ":", ";", "<", "=", ">", "?",
       "@", "A", "B", "C", "D", "E", "F", "G", "H", "I", "J", "K", "L", "M", "N", "O",
       "P", "Q", "R", "S", "T", "U", "V", "W", "X", "Y", "Z", "[", "backslash", "]", "^", "_",
       "backtick", "a", "b", "c", "d", "e", "f", "g", "h", "i", "j", "k", "l", "m", "n", "o",
       "p", "q", "r", "s", "t", "u", "v", "w", "x", "y", "z", "{", "|", "}", "~" >>

Ord(c) == 31 + (CHOOSE i \in 1..Len(ASCII) : ASCII[i] = c)

Str(t) == [i \in 1..Len(t) |-> Ord(t[i])]

\* the characters the code names
UpperA == Ord("A")
UpperZ == Ord("Z")
LowerA == Ord("a")
LowerZ == Ord("z")
Digit0 == Ord("0")
Digit9 == Ord("9")
Minus == Ord("-")
Underscore == Ord("_")
Plus == Ord("+")
Solidus == Ord("/")
Question == Ord("?")
Hash == Ord("#")
Colon == Ord(":")
Semicolon == Ord(";")
Dot == Ord(".")
Equals == Ord("=")
DoubleSlash == << Solidus, Solidus >>
SchemeEnd == << Colon, Solidus, Solidus >>

\* s[from:] and s[:to] of Python, for 0-based bounds inside the string
Drop(s, n) == SubSeq(s, n + 1, Len(s))
Take(s, n) == SubSeq(s, 1, n)

\* s.find(c, start): 0-based index of the first c at or after start, -1 if none
Find(s, c, start) ==
    IF \E i \in (start + 1)..Len(s) : s[i] = c
    THEN (CHOOSE i \in (start + 1)..Len(s) :
              /\ s[i] = c
              /\ \A j \in (start + 1)..(i - 1) : s[j] # c) - 1
    ELSE -1

\* s.rfind(c): 0-based index of the last c, -1 if none
RFind(s, c) ==
    IF \E i \in 1..Len(s) : s[i] = c
    THEN (CHOOSE i \in 1..Len(s) :
              /\ s[i] = c
              /\ \A j \in (i + 1)..Len(s) : s[j] # c) - 1
    ELSE -1

StartsWith(s, p) == Len(s) >= Len(p) /\ Take(s, Len(p)) = p
EndsWith(s, p) == Len(s) >= Len(p) /\ Drop(s, Len(s) - Len(p)) = p

\* s.rstrip(c)
RECURSIVE RStrip(_, _)
RStrip(s, c) ==
    IF Len(s) > 0 /\ s[Len(s)] = c THEN RStrip(Take(s, Len(s) - 1), c) ELSE s

\* c * n
Repeat(c, n) == [i \in 1..n |-> c]

Ok(v) == [ok |-> TRUE, val |-> v]
Raise(e) == [ok |-> FALSE, err |-> e]

(***************************************************************************)
(* str.encode('utf-8') and bytes.decode('utf-8')                           *)
(***************************************************************************)
Utf8Char(cp) ==
    IF cp < 128 THEN << cp >>
    ELSE IF cp < 2048 THEN << 192 + (cp \div 64), 128 + (cp % 64) >>
    ELSE IF cp < 65536
         THEN << 224 + (cp \div 4096), 128 + ((cp \div 64) % 64), 128 + (cp % 64) >>
    ELSE << 240 + (cp \div 262144), 128 + ((cp \div 4096) % 64),
            128 + ((cp \div 64) % 64), 128 + (cp % 64) >>

RECURSIVE Utf8Encode(_)
Utf8Encode(s) ==
    IF s = << >> THEN << >> ELSE Utf8Char(s[1]) \o Utf8Encode(Drop(s, 1))

IsCont(b, i) == i <= Len(b) /\ b[i] >= 128 /\ b[i] <= 191
InRange(b, i, lo, hi) == i <= Len(b) /\ b[i] >= lo /\ b[i] <= hi

\* number of bytes of the well-formed sequence that starts b, 0 if none does
Utf8Width(b) ==
    LET b1 == b[1] IN
    IF b1 < 128 THEN 1
    ELSE IF b1 >= 194 /\ b1 <= 223 /\ IsCont(b, 2) THEN 2
    ELSE IF b1 = 224 /\ InRange(b, 2, 160, 191) /\ IsCont(b, 3) THEN 3
    ELSE IF b1 = 237 /\ InRange(b, 2, 128, 159) /\ IsCont(b, 3) THEN 3
    ELSE IF b1 >= 225 /\ b1 <= 239 /\ b1 # 237 /\ IsCont(b, 2) /\ IsCont(b, 3) THEN 3
    ELSE IF b1 = 240 /\ InRange(b, 2, 144, 191) /\ IsCont(b, 3) /\ IsCont(b, 4) THEN 4
    ELSE IF b1 >= 241 /\ b1 <= 243 /\ IsCont(b, 2) /\ IsCont(b, 3) /\ IsCont(b, 4) THEN 4
    ELSE IF b1 = 244 /\ InRange(b, 2, 128, 143) /\ IsCont(b, 3) /\ IsCont(b, 4) THEN 4
    ELSE 0

Utf8CodePoint(b, w) ==
    IF w = 1 THEN b[1]
    ELSE IF w = 2 THEN (b[1] - 192) * 64 + (b[2] - 128)
    ELSE IF w = 3 THEN (b[1] - 224) * 4096 + (b[2] - 128) * 64 + (b[3] - 128)
    ELSE (b[1] - 240) * 262144 + (b[2] - 128) * 4096 + (b[3] - 128) * 64 + (b[4] - 128)

RECURSIVE Utf8Decode(_)
Utf8Cons(cp, rest) == IF rest.ok THEN Ok(<< cp >> \o rest.val) ELSE rest

Utf8DecodeAt(b, w) ==
    IF w = 0 THEN Raise("UnicodeDecodeError")
    ELSE Utf8Cons(Utf8CodePoint(b, w), Utf8Decode(Drop(b, w)))

Utf8Decode(b) == IF b = << >> THEN Ok(<< >>) ELSE Utf8DecodeAt(b, Utf8Width(b))

(***************************************************************************)
(* base64.urlsafe_b64encode and base64.urlsafe_b64decode                   *)
(***************************************************************************)
PAD == Equals

\* the URL-safe alphabet: A-Z a-z 0-9 - _
B64Char(v) ==
    IF v < 26 THEN UpperA + v
    ELSE IF v < 52 THEN LowerA + (v - 26)
    ELSE IF v < 62 THEN Digit0 + (v - 52)
    ELSE IF v = 62 THEN Minus
    ELSE Underscore

RECURSIVE urlsafe_b64encode(_)
urlsafe_b64encode(b) ==
    IF Len(b) = 0 THEN << >>
    ELSE IF Len(b) = 1
         THEN << B64Char(b[1] \div 4), B64Char((b[1] % 4) * 16), PAD, PAD >>
    ELSE IF Len(b) = 2
         THEN << B64Char(b[1] \div 4),
                 B64Char((b[1] % 4) * 16 + (b[2] \div 16)),
                 B64Char((b[2] % 16) * 4), PAD >>
    ELSE << B64Char(b[1] \div 4),
            B64Char((b[1] % 4) * 16 + (b[2] \div 16)),
            B64Char((b[2] % 16) * 4 + (b[3] \div 64)),
            B64Char(b[3] % 64) >> \o urlsafe_b64encode(Drop(b, 3))

\* value of a character in the decoder's table after the URL-safe
\* translation ('-' -> '+', '_' -> '/'); 64 for a character outside it
B64Value(c) ==
    IF c >= UpperA /\ c <= UpperZ THEN c - UpperA
    ELSE IF c >= LowerA /\ c <= LowerZ THEN c - LowerA + 26
    ELSE IF c >= Digit0 /\ c <= Digit9 THEN c - Digit0 + 52
    ELSE IF c = Minus \/ c = Plus THEN 62
    ELSE IF c = Underscore \/ c = Solidus THEN 63
    ELSE 64

\* the decoder's loop (non-strict mode): characters outside the alphabet are
\* skipped, a complete pad sequence ends the input, and data that stops
\* inside a quad is an error
RECURSIVE A2B(_, _, _, _, _, _)
\* one character of the alphabet, of value v
A2BData(s, i, quad_pos, leftchar, out, v) ==
    IF quad_pos = 0 THEN A2B(s, i + 1, 1, v, 0, out)
    ELSE IF quad_pos = 1
         THEN A2B(s, i + 1, 2, v % 16, 0, Append(out, leftchar * 4 + (v \div 16)))
    ELSE IF quad_pos = 2
         THEN A2B(s, i + 1, 3, v % 4, 0, Append(out, leftchar * 16 + (v \div 4)))
    ELSE A2B(s, i + 1, 0, 0, 0, Append(out, leftchar * 64 + v))

A2B(s, i, quad_pos, leftchar, pads, out) ==
    IF i > Len(s)
    THEN IF quad_pos # 0 THEN Raise("binascii.Error") ELSE Ok(out)
    ELSE IF s[i] = PAD
         THEN IF quad_pos >= 2 /\ quad_pos + pads + 1 >= 4
              THEN Ok(out)
              ELSE A2B(s, i + 1, quad_pos, leftchar,
                       IF quad_pos >= 2 THEN pads + 1 ELSE pads, out)
    ELSE IF B64Value(s[i]) >= 64 THEN A2B(s, i + 1, quad_pos, leftchar, pads, out)
    ELSE A2BData(s, i, quad_pos, leftchar, out, B64Value(s[i]))

urlsafe_b64decode(s) == A2B(s, 1, 0, 0, 0, << >>)

(***************************************************************************)
(* validators.url: the syntactic rule the validator applies.  A URL is     *)
(* scheme "://" host followed by nothing or by a part that starts with     *)
(* '/', '?' or '#'; the host is dot-separated non-empty labels, at least   *)
(* two of them; no character is a blank or a control character.            *)
(***************************************************************************)
IsAlpha(c) == (c >= LowerA /\ c <= LowerZ) \/ (c >= UpperA /\ c <= UpperZ)
IsDigit(c) == c >= Digit0 /\ c <= Digit9

Schemes == { Str(<<"h","t","t","p">>), Str(<<"h","t","t","p","s">>), Str(<<"f","t","p">>) }

\* 0-based index of the first of '/', '?', '#' at or after start, Len(s) if none
FirstDelim(s, start) ==
    IF \E i \in (start + 1)..Len(s) : s[i] \in {Solidus, Question, Hash}
    THEN (CHOOSE i \in (start + 1)..Len(s) :
              /\ s[i] \in {Solidus, Question, Hash}
              /\ \A j \in (start + 1)..(i - 1) : s[j] \notin {Solidus, Question, Hash}) - 1
    ELSE Len(s)

ValidHost(h) ==
    /\ Len(h) > 0
    /\ \A i \in 1..Len(h) : IsAlpha(h[i]) \/ IsDigit(h[i]) \/ h[i] \in {Minus, Dot}
    /\ h[1] # Dot /\ h[Len(h)] # Dot
    /\ \E i \in 1..Len(h) : h[i] = Dot
    /\ \A i \in 1..(Len(h) - 1) : ~(h[i] = Dot /\ h[i + 1] = Dot)

\* the rule, for the 0-based index i of the first ':'
ValidUrlAt(s, i) ==
    /\ i > 0
    /\ Take(s, i) \in Schemes
    /\ StartsWith(Drop(s, i), SchemeEnd)
    /\ \A k \in 1..Len(s) : s[k] > 32 /\ s[k] # 127
    /\ ValidHost(SubSeq(s, i + 4, FirstDelim(s, i + 3)))

validators_url(s) == ValidUrlAt(s, Find(s, Colon, 0))

(***************************************************************************)
(* urllib.parse.urlparse and urlunparse                                    *)
(***************************************************************************)
Lower(s) == [i \in 1..Len(s) |-> IF s[i] >= UpperA /\ s[i] <= UpperZ THEN s[i] + 32 ELSE s[i]]

IsSchemeChar(c) == IsAlpha(c) \/ IsDigit(c) \/ c \in {Plus, Minus, Dot}

\* schemes of uses_params and uses_netloc that the validator lets through
UsesParams == Schemes \cup { << >> }
UsesNetloc == Schemes \cup { << >> }

\* the six-tuple (scheme, netloc, path, params, query, fragment)
ParseResult(scheme, netloc, path, params, query, fragment) ==
    [scheme |-> scheme, netloc |-> netloc, path |-> path, params |-> params,
     query |-> query, fragment |-> fragment]

\* _splitparams: the first ';' of the last path segment, at 0-based index p
SplitParams(scheme, netloc, url, query, fragment, p) ==
    IF scheme \in UsesParams /\ p >= 0
    THEN ParseResult(scheme, netloc, Take(url, p), Drop(url, p + 1), query, fragment)
    ELSE ParseResult(scheme, netloc, url, << >>, query, fragment)

LastSegment(url, sl) == IF sl >= 0 THEN sl ELSE 0

\* the first '?', at 0-based index q
SplitQuery(scheme, netloc, url, fragment, q) ==
    SplitParams(scheme, netloc,
                IF q >= 0 THEN Take(url, q) ELSE url,
                IF q >= 0 THEN Drop(url, q + 1) ELSE << >>,
                fragment,
                IF q >= 0
                THEN Find(Take(url, q), Semicolon, LastSegment(url, RFind(Take(url, q), Solidus)))
                ELSE Find(url, Semicolon, LastSegment(url, RFind(url, Solidus))))

\* the first '#', at 0-based index h
SplitFragment(scheme, netloc, url, h) ==
    SplitQuery(scheme, netloc,
               IF h >= 0 THEN Take(url, h) ELSE url,
               IF h >= 0 THEN Drop(url, h + 1) ELSE << >>,
               IF h >= 0 THEN Find(Take(url, h), Question, 0) ELSE Find(url, Question, 0))

\* _splitnetloc: after '//' the netloc ends at the first of '/', '?', '#'
SplitNetloc(scheme, url, d) ==
    IF StartsWith(url, DoubleSlash)
    THEN SplitFragment(scheme, SubSeq(url, 3, d), Drop(url, d), Find(Drop(url, d), Hash, 0))
    ELSE SplitFragment(scheme, << >>, url, Find(url, Hash, 0))

HasScheme(s, c) == c > 0 /\ IsAlpha(s[1]) /\ \A k \in 1..c : IsSchemeChar(s[k])

\* the scheme ends at the first ':', at 0-based index c
SplitScheme(s, c) ==
    IF HasScheme(s, c)
    THEN SplitNetloc(Lower(Take(s, c)), Drop(s, c + 1), FirstDelim(Drop(s, c + 1), 2))
    ELSE SplitNetloc(<< >>, s, FirstDelim(s, 2))

urlparse(s) == SplitScheme(s, Find(s, Colon, 0))

JoinParams(t) == IF t.params # << >> THEN t.path \o << Semicolon >> \o t.params ELSE t.path

JoinNetloc(t, url) ==
    IF t.netloc # << >>
       \/ (t.scheme # << >> /\ t.scheme \in UsesNetloc /\ ~StartsWith(url, DoubleSlash))
    THEN DoubleSlash \o t.netloc
         \o (IF url # << >> /\ url[1] # Solidus THEN << Solidus >> ELSE << >>)
         \o url
    ELSE url

JoinScheme(t, url) == IF t.scheme # << >> THEN t.scheme \o << Colon >> \o url ELSE url

JoinQuery(t, url) == IF t.query # << >> THEN url \o << Question >> \o t.query ELSE url

JoinFragment(t, url) == IF t.fragment # << >> THEN url \o << Hash >> \o t.fragment ELSE url

urlunparse(t) == JoinFragment(t, JoinQuery(t, JoinScheme(t, JoinNetloc(t, JoinParams(t)))))

(***************************************************************************)
(* app/utils/common.py                                                     *)
(***************************************************************************)
validate_and_sanitize_url(url_str) ==
    IF validators_url(url_str)
    THEN Ok(urlunparse(urlparse(url_str)))
    ELSE Raise("ValueError")

\* the trailing '=' left in the identifier
EncodeSanitized_keep_padding(sanitized_url) ==
    IF ~sanitized_url.ok THEN sanitized_url
    ELSE Ok(urlsafe_b64encode(Utf8Encode(sanitized_url.val)))

\* lines 95-96, for the result of validate_and_sanitize_url
EncodeSanitized(sanitized_url) ==
    IF ~sanitized_url.ok THEN sanitized_url
    ELSE Ok(RStrip(urlsafe_b64encode(Utf8Encode(sanitized_url.val)), PAD))

encode_url_to_filename(url) == EncodeSanitized(validate_and_sanitize_url(url))

\* the operands of the subtraction exchanged: no padding is ever re-added
padding_needed_swapped(encoded_str) == (Len(encoded_str) % 4) - 4

padding_needed(encoded_str) == 4 - (Len(encoded_str) % 4)

\* if padding_needed: encoded_str += "=" * padding_needed
Padded(encoded_str, n) == IF n # 0 THEN encoded_str \o Repeat(PAD, n) ELSE encoded_str

\* decoded_bytes.decode('utf-8'), when base64 gave bytes
DecodeBytes(decoded_bytes) ==
    IF ~decoded_bytes.ok THEN decoded_bytes ELSE Utf8Decode(decoded_bytes.val)

decode_filename_to_url(encoded_str) ==
    DecodeBytes(urlsafe_b64decode(Padded(encoded_str, padding_needed(encoded_str))))

\* qr_filename[:-4]
StripSuffix(qr_filename) ==
    IF Len(qr_filename) >= 4 THEN Take(qr_filename, Len(qr_filename) - 4) ELSE << >>

QrCodesSegment == Str(<<"/", "q", "r", "-", "c", "o", "d", "e", "s", "/">>)

ViewLink(download_url) ==
    [rel |-> "view", href |-> download_url, action |-> "GET", type |-> "image/png"]

DeleteLink(qr_filename, base_api_url) ==
    [rel |-> "delete", href |-> base_api_url \o QrCodesSegment \o qr_filename,
     action |-> "DELETE", type |-> "application/json"]

\* the filename is decoded for create and list only
OriginalUrl(action, qr_filename) ==
    IF action \in {"list", "create"}
    THEN decode_filename_to_url(StripSuffix(qr_filename))
    ELSE Ok(<< >>)

\* the delete link appended before the view link
LinksOf_delete_first(action, qr_filename, base_api_url, download_url, original_url) ==
    IF ~original_url.ok THEN original_url
    ELSE Ok((IF action \in {"list", "create", "delete"}
             THEN << DeleteLink(qr_filename, base_api_url) >> ELSE << >>)
            \o (IF action \in {"list", "create"} THEN << ViewLink(download_url) >> ELSE << >>))

\* the list that is built once the filename has decoded
LinksOf(action, qr_filename, base_api_url, download_url, original_url) ==
    IF ~original_url.ok THEN original_url
    ELSE Ok((IF action \in {"list", "create"} THEN << ViewLink(download_url) >> ELSE << >>)
            \o (IF action \in {"list", "create", "delete"}
                THEN << DeleteLink(qr_filename, base_api_url) >> ELSE << >>))

generate_links(action, qr_filename, base_api_url, download_url) ==
    LinksOf(action, qr_filename, base_api_url, download_url,
            OriginalUrl(action, qr_filename))

(***************************************************************************)
(* app/config.py                                                           *)
(***************************************************************************)
SERVER_BASE_URL ==
    Str(<<"h","t","t","p",":","/","/","l","o","c","a","l","h","o","s","t",":","8","0","0","0">>)
SERVER_DOWNLOAD_FOLDER == Str(<<"d","o","w","n","l","o","a","d","s">>)

\* a directory is the tuple of its components, absolute when it starts at "/"
\* Path(os.getenv('QR_CODE_DIR', './qr_codes')): the default, or an absolute
\* directory given by the environment
DefaultDir == << "qr_codes" >>
AbsoluteDir == << "/", "srv", "qr_codes" >>

(***************************************************************************)
(* Bounds and inputs                                                       *)
(***************************************************************************)
MaxUrl == 4
NumProcs == 2
MaxLabelLen == 2

Min(a, b) == IF a < b THEN a ELSE b

Png == Str(<<".","p","n","g">>)
Slash == << Solidus >>

\* request URLs: 1 and 2 differ only by an empty query, 3 and 5, 6 are the
\* non-URLs of the validator's contract
UrlCatalog ==
    << Str(<<"h","t","t","p",":","/","/","a",".","c","o">>),
       Str(<<"h","t","t","p",":","/","/","a",".","c","o","?">>),
       Str(<<"n","o","t"," ","a"," ","u","r","l">>),
       Str(<<"h","t","t","p","s",":","/","/","a","b",".","i","o","/","x">>),
       << >>,
       Str(<<"f","t","p","/","/","m","i","s","s","i","n","g","-","c","o","l","o","n">>) >>

Urls == { UrlCatalog[i] : i \in 1..Min(MaxUrl, Len(UrlCatalog)) }

Sizes == { 10 }

\* entries that something other than this service left in the directory
LogoPng == Str(<<"l","o","g","o",".","p","n","g">>)
MemoTxt == Str(<<"m","e","m","o",".","t","x","t">>)
NonePng == Str(<<"n","o","n","e",".","p","n","g">>)
ForeignNames == { LogoPng, MemoTxt }
ForeignContent == [data |-> << >>, box_size |-> 0]

ArtifactNames ==
    { encode_url_to_filename(u).val \o Png : u \in { v \in Urls : validators_url(v) } }

\* the filenames a Delete request is tried with
FileNames == ArtifactNames \cup ForeignNames \cup { NonePng }

Procs == 1..NumProcs

(***************************************************************************)
(* State                                                                   *)
(***************************************************************************)
VARIABLES
    QR_DIRECTORY,   \* config: directory of the artifacts
    fs,             \* the filesystem: file path -> content
    resp,           \* the response to the latest request
    createLog,      \* the Create responses since the latest Delete request (last two)
    writes,         \* name -> number of times written since it was last absent
    req,            \* per worker: the Create request it is serving
    codec           \* the latest call of a function of app/utils/common.py

vars == << QR_DIRECTORY, fs, resp, createLog, writes, req, codec >>

\* directory_path / name
PathOf(dir, name) == [dir |-> dir, name |-> name]

IsAbs(dir) == dir # << >> /\ dir[1] = "/"

\* os.path.join(directory, path)
os_path_join(directory, path) ==
    IF IsAbs(path.dir) THEN path
    ELSE [dir |-> << directory >> \o path.dir, name |-> path.name]

Exists(files, path) == path \in DOMAIN files

WriteFile(files, path, content) ==
    [q \in DOMAIN files \cup {path} |-> IF q = path THEN content ELSE files[q]]

RemoveFile(files, path) == [q \in DOMAIN files \ {path} |-> files[q]]

\* the names in the store
Store == { q.name : q \in { r \in DOMAIN fs : r.dir = QR_DIRECTORY } }

NoBody == [message |-> "", qr_code_url |-> << >>, links |-> << >>]
NoResp == [op |-> "none", arg |-> << >>, status |-> 0, exc |-> "",
           body |-> NoBody, items |-> << >>]
Response(op, arg, status, body) ==
    [op |-> op, arg |-> arg, status |-> status, exc |-> "", body |-> body, items |-> << >>]
\* an exception that leaves the handler: the framework answers 500
Unhandled(op, arg, exc) ==
    [op |-> op, arg |-> arg, status |-> 500, exc |-> exc, body |-> NoBody, items |-> << >>]

Idle == [pc |-> "idle", url |-> << >>, size |-> 0, exists_at_check |-> FALSE]

(***************************************************************************)
(* app/services/qr_service.py                                              *)
(***************************************************************************)
\* the '.png' names of the directory; os.listdir gives them in any order
list_qr_codes(files, directory_path) ==
    { q.name : q \in { r \in DOMAIN files : r.dir = directory_path /\ EndsWith(r.name, Png) } }

\* img.save(str(path))
generate_qr_code(files, data, path, size) ==
    WriteFile(files, path, [data |-> data, box_size |-> size])

\* os.remove(file_path) if os.path.exists(file_path)
RemoveIfExists(files, file_path) ==
    IF Exists(files, file_path) THEN RemoveFile(files, file_path) ELSE files

\* called with the full path as file_name and the default directory "qr_codes"
delete_qr_code(files, file_name, directory) ==
    RemoveIfExists(files, os_path_join(directory, file_name))

(***************************************************************************)
(* app/routers/qr_code.py                                                  *)
(***************************************************************************)
DownloadUrl(qr_filename) ==
    SERVER_BASE_URL \o Slash \o SERVER_DOWNLOAD_FOLDER \o Slash \o qr_filename

Prepared(ok, exc, dir, qr_filename, body) ==
    [ok |-> ok, exc |-> exc, qr_filename |-> qr_filename,
     path |-> PathOf(dir, qr_filename), body |-> body]

PrepareLinked(dir, qr_filename, links) ==
    IF ~links.ok
    THEN Prepared(FALSE, links.err, dir, qr_filename, NoBody)
    ELSE Prepared(TRUE, "", dir, qr_filename,
                  [message |-> "", qr_code_url |-> DownloadUrl(qr_filename),
                   links |-> links.val])

PrepareEncoded(dir, encoded_url) ==
    IF ~encoded_url.ok
    THEN Prepared(FALSE, encoded_url.err, dir, << >>, NoBody)
    ELSE PrepareLinked(dir, encoded_url.val \o Png,
                       generate_links("create", encoded_url.val \o Png, SERVER_BASE_URL,
                                      DownloadUrl(encoded_url.val \o Png)))

\* create_qr_code up to the existence check: the filename, the path, the
\* download URL and the links, or the exception that ends the handler
CreatePrepare(dir, url) == PrepareEncoded(dir, encode_url_to_filename(url))

LogEntry(url, status, pre, existed, rendered) ==
    [url |-> url, status |-> status, filename |-> pre.qr_filename,
     qr_code_url |-> pre.body.qr_code_url, existed |-> existed, rendered |-> rendered]

\* the last two entries
Log(log, e) == IF Len(log) < 2 THEN Append(log, e) ELSE << log[2], e >>

Existing(pre) == [pre.body EXCEPT !.message = "QR code already exists."]
Created(pre) == [pre.body EXCEPT !.message = "QR code created successfully."]

Written(w, name) == IF name \in DOMAIN w THEN [w EXCEPT ![name] = @ + 1] ELSE w

Outcome(files, response, rendered, entry) ==
    [fs |-> files, resp |-> response, rendered |-> rendered, entry |-> entry]

\* Create without the existence check: the artifact is rendered every time
OutcomeOf_no_exists_check(files, url, size, pre) ==
    IF ~pre.ok
    THEN Outcome(files, Unhandled("create", url, pre.exc), FALSE,
                 LogEntry(url, 500, pre, FALSE, FALSE))
    ELSE Outcome(generate_qr_code(files, url, pre.path, size),
                 Response("create", url, 201, Created(pre)), TRUE,
                 LogEntry(url, 201, pre, Exists(files, pre.path), TRUE))

\* the handler from the existence check on
OutcomeOf(files, url, size, pre) ==
    IF ~pre.ok
    THEN Outcome(files, Unhandled("create", url, pre.exc), FALSE,
                 LogEntry(url, 500, pre, FALSE, FALSE))
    ELSE IF Exists(files, pre.path)
    THEN Outcome(files, Response("create", url, 200, Existing(pre)), FALSE,
                 LogEntry(url, 200, pre, TRUE, FALSE))
    ELSE Outcome(generate_qr_code(files, url, pre.path, size),
                 Response("create", url, 201, Created(pre)), TRUE,
                 LogEntry(url, 201, pre, FALSE, TRUE))

\* the outcome of one whole Create request on the files: the response, the
\* files afterwards and whether the renderer ran
CreateOutcome(files, dir, url, size) == OutcomeOf(files, url, size, CreatePrepare(dir, url))

CreateStep(out) ==
    /\ fs' = out.fs
    /\ resp' = out.resp
    /\ createLog' = Log(createLog, out.entry)
    /\ writes' = IF out.rendered THEN Written(writes, out.entry.filename) ELSE writes
    /\ UNCHANGED << QR_DIRECTORY, req, codec >>

\* POST /qr-codes/
create_qr_code(url, size) == CreateStep(CreateOutcome(fs, QR_DIRECTORY, url, size))

\* the injective sequences over a set: the orders os.listdir may give
Orders(S) ==
    { o \in [1..Cardinality(S) -> S] : \A i, j \in 1..Cardinality(S) : o[i] = o[j] => i = j }

ItemOf(url, links) ==
    IF ~url.ok THEN url
    ELSE IF ~links.ok THEN links
    ELSE Ok([message |-> "QR code available", qr_code_url |-> url.val, links |-> links.val])

\* one QRCodeResponse of the list comprehension
ListItem(qr_file) ==
    ItemOf(decode_filename_to_url(StripSuffix(qr_file)),
           generate_links("list", qr_file, SERVER_BASE_URL, DownloadUrl(qr_file)))

FirstRaising(items) ==
    CHOOSE k \in 1..Len(items) : ~items[k].ok /\ \A j \in 1..(k - 1) : items[j].ok

\* the list comprehension: the first entry that raises ends the handler
ResponseOf(items) ==
    IF \E i \in 1..Len(items) : ~items[i].ok
    THEN Unhandled("list", << >>, items[FirstRaising(items)].err)
    ELSE [Response("list", << >>, 200, NoBody)
             EXCEPT !.items = [i \in 1..Len(items) |-> items[i].val]]

ListOutcome(qr_files) == ResponseOf([i \in 1..Len(qr_files) |-> ListItem(qr_files[i])])

\* GET /qr-codes/
list_qr_codes_endpoint ==
    /\ \E qr_files \in Orders(list_qr_codes(fs, QR_DIRECTORY)) :
           resp' = ListOutcome(qr_files)
    /\ UNCHANGED << QR_DIRECTORY, fs, createLog, writes, req, codec >>

\* a removal of the store's file resets its write count
AfterDelete(w, files, dir, name) ==
    IF name \in DOMAIN w /\ ~Exists(files, PathOf(dir, name)) THEN [w EXCEPT ![name] = 0] ELSE w

\* Delete without the is_file check
DeleteOutcome_no_is_file_check(files, dir, qr_filename) ==
    [fs |-> delete_qr_code(files, PathOf(dir, qr_filename), "qr_codes"),
     resp |-> Response("delete", qr_filename, 204, NoBody)]

DeleteOutcome(files, dir, qr_filename) ==
    IF ~Exists(files, PathOf(dir, qr_filename))
    THEN [fs |-> files, resp |-> [Response("delete", qr_filename, 404, NoBody)
                                     EXCEPT !.exc = "HTTPException"]]
    ELSE [fs |-> delete_qr_code(files, PathOf(dir, qr_filename), "qr_codes"),
          resp |-> Response("delete", qr_filename, 204, NoBody)]

DeleteStep(qr_filename, out) ==
    /\ fs' = out.fs
    /\ resp' = out.resp
    /\ createLog' = << >>
    /\ writes' = AfterDelete(writes, out.fs, QR_DIRECTORY, qr_filename)
    /\ UNCHANGED << QR_DIRECTORY, req, codec >>

\* DELETE /qr-codes/{qr_filename}
delete_qr_code_endpoint(qr_filename) ==
    DeleteStep(qr_filename, DeleteOutcome(fs, QR_DIRECTORY, qr_filename))

(***************************************************************************)
(* The service, one request at a time                                      *)
(***************************************************************************)
\* an artifact an earlier run of the service left for the first URL
EarlierName == encode_url_to_filename(UrlCatalog[1]).val \o Png
EarlierContent == [data |-> UrlCatalog[1], box_size |-> 10]

InitialFiles(dir) ==
    { [q \in { PathOf(dir, n) : n \in N } |->
          IF q.name = EarlierName THEN EarlierContent ELSE ForeignContent] :
      N \in SUBSET (ForeignNames \cup { EarlierName }) }

InitCommon ==
    /\ QR_DIRECTORY \in { DefaultDir, AbsoluteDir }
    /\ resp = NoResp
    /\ createLog = << >>
    /\ req = [p \in Procs |-> Idle]
    /\ codec = [op |-> "none"]

Init ==
    /\ InitCommon
    /\ fs \in InitialFiles(QR_DIRECTORY)
    /\ writes = [n \in ArtifactNames |->
                    IF Exists(fs, PathOf(QR_DIRECTORY, n)) THEN 1 ELSE 0]

Next ==
    \/ \E url \in Urls, size \in Sizes : create_qr_code(url, size)
    \/ list_qr_codes_endpoint
    \/ \E qr_filename \in FileNames : delete_qr_code_endpoint(qr_filename)

Spec == Init /\ [][Next]_vars

\* the same service started on an empty directory
InitEmpty ==
    /\ InitCommon
    /\ fs = << >>
    /\ writes = [n \in ArtifactNames |-> 0]

SpecEmpty == InitEmpty /\ [][Next]_vars

(***************************************************************************)
(* The service with several workers.  A worker serves a Create request in  *)
(* two steps, the existence check (qr_code_full_path.exists()) and later   *)
(* the write (img.save): nothing in the code holds the file between them,  *)
(* and workers of different processes share the directory.                 *)
(***************************************************************************)
Serving(url, size, exists) ==
    [pc |-> "write", url |-> url, size |-> size, exists_at_check |-> exists]

\* the first step without the existence check: every valid request goes on to write
CheckStep_no_exists_check(p, url, size, pre) ==
    /\ req[p].pc = "idle"
    /\ IF ~pre.ok
       THEN resp' = Unhandled("create", url, pre.exc) /\ req' = req
       ELSE resp' = resp
            /\ req' = [req EXCEPT ![p] = Serving(url, size, Exists(fs, pre.path))]
    /\ UNCHANGED << QR_DIRECTORY, fs, createLog, writes, codec >>

\* the handler up to the existence check, for what CreatePrepare gave
CheckStep(p, url, size, pre) ==
    /\ req[p].pc = "idle"
    /\ IF ~pre.ok
       THEN resp' = Unhandled("create", url, pre.exc) /\ req' = req
       ELSE IF Exists(fs, pre.path)
       THEN resp' = Response("create", url, 200, Existing(pre)) /\ req' = req
       ELSE resp' = resp
            /\ req' = [req EXCEPT ![p] = Serving(url, size, Exists(fs, pre.path))]
    /\ UNCHANGED << QR_DIRECTORY, fs, createLog, writes, codec >>

\* create_qr_code from its start to the existence check
CreateCheck(p, url, size) == CheckStep(p, url, size, CreatePrepare(QR_DIRECTORY, url))

WriteStep(p, pre) ==
    /\ req[p].pc = "write"
    /\ fs' = generate_qr_code(fs, req[p].url, pre.path, req[p].size)
    /\ writes' = Written(writes, pre.qr_filename)
    /\ resp' = Response("create", req[p].url, 201, Created(pre))
    /\ req' = [req EXCEPT ![p] = Idle]
    /\ UNCHANGED << QR_DIRECTORY, createLog, codec >>

\* create_qr_code from generate_qr_code to the response
CreateWrite(p) == WriteStep(p, CreatePrepare(QR_DIRECTORY, req[p].url))

NextConc ==
    \/ \E p \in Procs, url \in Urls, size \in Sizes : CreateCheck(p, url, size)
    \/ \E p \in Procs : CreateWrite(p)
    \/ list_qr_codes_endpoint
    \/ \E qr_filename \in FileNames : delete_qr_code_endpoint(qr_filename)

SpecConc == InitEmpty /\ [][NextConc]_vars

(***************************************************************************)
(* The functions of app/utils/common.py on their own: a text is drawn,     *)
(* then encoded, decoded, or given to the link builder.                    *)
(***************************************************************************)
Labels == UNION { [1..n -> { LowerA, LowerA + 1 }] : n \in 1..MaxLabelLen }

Paths == { << >>, Slash, << Solidus, Ord("x"), Semicolon >>, << Solidus, 233 >> }

Tails == { << >>, << Question >>, << Question, Ord("q") >>, << Hash >>, << Hash, Ord("f") >> }

CodecUrls ==
    { sch \o SchemeEnd \o l \o Str(<<".", "c", "o">>) \o pa \o t :
          sch \in Schemes, l \in Labels, pa \in Paths, t \in Tails }

\* texts that are no URL: identifiers of every length modulo 4, names of
\* foreign files without their suffix, and the non-URLs of the catalog
OtherTexts ==
    { << >>, Str(<<"A">>), Str(<<"Y","Q">>), Str(<<"Y","W","I">>), Str(<<"Y","W","J","j">>),
      Str(<<"l","o","g","o">>), Str(<<"n","o","t","e","s">>),
      UrlCatalog[3], UrlCatalog[6] }

Texts == CodecUrls \cup OtherTexts

Actions == { "create", "list", "delete", "update" }

BaseUrls == { SERVER_BASE_URL, Str(<<"h","t","t","p",":","/","/","x">>) }

Call(op, text, arg, pad, action, base, result) ==
    [op |-> op, text |-> text, arg |-> arg, pad |-> pad, action |-> action,
     base |-> base, result |-> result]

InitCodec ==
    /\ QR_DIRECTORY = DefaultDir
    /\ fs = << >>
    /\ writes = [n \in ArtifactNames |-> 0]
    /\ resp = NoResp
    /\ createLog = << >>
    /\ req = [p \in Procs |-> Idle]
    /\ \E text \in Texts : codec = Call("input", text, << >>, 0, "", << >>, Ok(<< >>))

\* encode_url_to_filename(text)
Encode ==
    /\ codec.op = "input"
    /\ codec' = Call("encode", codec.text, codec.text, 0, "", << >>,
                     encode_url_to_filename(codec.text))
    /\ UNCHANGED << QR_DIRECTORY, fs, resp, createLog, writes, req >>

\* decode_filename_to_url(text)
Decode ==
    /\ codec.op = "input"
    /\ codec' = Call("decode", codec.text, codec.text, padding_needed(codec.text), "", << >>,
                     decode_filename_to_url(codec.text))
    /\ UNCHANGED << QR_DIRECTORY, fs, resp, createLog, writes, req >>

\* decode_filename_to_url(encode_url_to_filename(text))
DecodeEncoded ==
    /\ codec.op = "encode" /\ codec.result.ok
    /\ codec' = Call("roundtrip", codec.text, codec.result.val,
                     padding_needed(codec.result.val), "", << >>,
                     decode_filename_to_url(codec.result.val))
    /\ UNCHANGED << QR_DIRECTORY, fs, resp, createLog, writes, req >>

LinksCall(action, base, qr_filename) ==
    codec' = Call("links", codec.text, qr_filename, 0, action, base,
                  generate_links(action, qr_filename, base,
                                 base \o Slash \o SERVER_DOWNLOAD_FOLDER \o Slash \o qr_filename))

\* generate_links(action, name + ".png", base, base + "/downloads/" + name + ".png")
\* for the text as the name, or for the identifier of the text
Links(action, base) ==
    /\ \/ codec.op = "input"
       \/ codec.op = "encode" /\ codec.result.ok
    /\ LinksCall(action, base,
                 (IF codec.op = "input" THEN codec.text ELSE codec.result.val) \o Png)
    /\ UNCHANGED << QR_DIRECTORY, fs, resp, createLog, writes, req >>

NextCodec ==
    \/ Encode
    \/ Decode
    \/ DecodeEncoded
    \/ \E action \in Actions, base \in BaseUrls : Links(action, base)

SpecCodec == InitCodec /\ [][NextCodec]_vars

(***************************************************************************)
(* Properties                                                              *)
(***************************************************************************)
StorePath(name) == PathOf(QR_DIRECTORY, name)

Decodable(name) == decode_filename_to_url(StripSuffix(name)).ok

\* C1: a Delete of a filename that has an artifact answers 204 and the
\* artifact is gone from the store afterwards (so no later List shows it).
C1_DeleteRemovesArtifact ==
    (resp.op = "delete" /\ resp.status = 204) => ~Exists(fs, StorePath(resp.arg))

\* C2: of two successive Create requests for the same valid URL with no
\* Delete in between, both give the same filename and qr_code_url, the
\* second answers 200 and does not render, and the first answers 201 and
\* renders when the artifact was not there.
C2_CreateIdempotent ==
    (/\ Len(createLog) = 2
     /\ createLog[1].url = createLog[2].url
     /\ validators_url(createLog[2].url))
    => /\ createLog[2].filename = createLog[1].filename
       /\ createLog[2].qr_code_url = createLog[1].qr_code_url
       /\ createLog[2].status = 200
       /\ ~createLog[2].rendered
       /\ Exists(fs, StorePath(createLog[2].filename))
       /\ (~createLog[1].existed => createLog[1].status = 201 /\ createLog[1].rendered)
       /\ (createLog[1].existed => createLog[1].status = 200 /\ ~createLog[1].rendered)

C2_Witness ==
    /\ Len(createLog) = 2
    /\ createLog[1].url = createLog[2].url
    /\ createLog[1].status = 201
    /\ createLog[2].status = 200

\* C3: decoding the identifier of a URL the validator accepts gives the
\* normalized URL, whatever the length of the identifier modulo 4.
C3_RoundTrip ==
    codec.op = "roundtrip" => codec.result = validate_and_sanitize_url(codec.text)

\* an identifier whose length is a multiple of 4, of a URL that
\* normalization changes
C3_Witness ==
    /\ codec.op = "roundtrip"
    /\ Len(codec.arg) % 4 = 0
    /\ codec.result.ok
    /\ codec.result.val # codec.text

\* C4: a List of a store with a decodable and an undecodable '.png' entry
\* answers 200 and contains the decodable entry with its links.
C4_ListIsolatesBadEntries ==
    (/\ resp.op = "list"
     /\ \E g \in Store : EndsWith(g, Png) /\ Decodable(g)
     /\ \E b \in Store : EndsWith(b, Png) /\ ~Decodable(b))
    => /\ resp.status = 200
       /\ \A g \in Store :
              (EndsWith(g, Png) /\ Decodable(g)) =>
                  \E i \in 1..Len(resp.items) :
                      /\ resp.items[i].qr_code_url = decode_filename_to_url(StripSuffix(g)).val
                      /\ Len(resp.items[i].links) = 2

\* C5: a Delete of a filename that has no artifact answers 404 and leaves
\* the files as they were.
C5_DeleteAbsentNotFound ==
    [][(resp'.op = "delete" /\ ~Exists(fs, StorePath(resp'.arg)))
           => (resp'.status = 404 /\ fs' = fs)]_vars

C5_Witness ==
    /\ resp.op = "delete"
    /\ resp.status = 404
    /\ Store # {}

\* C6: a Create with a URL the validator rejects answers 400.
C6_InvalidUrlIsClientError ==
    (resp.op = "create" /\ ~validators_url(resp.arg)) => resp.status = 400

\* C7: for create and list with a decodable filename generate_links gives
\* exactly [view, delete], for delete exactly [delete], with the fields of
\* the contract.
C7_LinksOrderAndContent ==
    codec.op = "links" =>
        LET view == [rel |-> "view",
                     href |-> codec.base \o Str(<<"/","d","o","w","n","l","o","a","d","s","/">>)
                              \o codec.arg,
                     action |-> "GET", type |-> "image/png"]
            del  == [rel |-> "delete",
                     href |-> codec.base \o Str(<<"/","q","r","-","c","o","d","e","s","/">>)
                              \o codec.arg,
                     action |-> "DELETE", type |-> "application/json"]
        IN  /\ (codec.action \in {"create", "list"} /\ Decodable(codec.arg))
                   => codec.result = Ok(<< view, del >>)
            /\ codec.action = "delete" => codec.result = Ok(<< del >>)

C7_Witness ==
    /\ codec.op = "links"
    /\ codec.action = "create"
    /\ codec.result.ok
    /\ Len(codec.result.val) = 2

\* C8: the number of '=' that decode_filename_to_url re-adds is
\* (4 - len % 4) % 4: 0, 3, 2, 1 for len % 4 = 0, 1, 2, 3.
C8_PadCount ==
    codec.op \in {"decode", "roundtrip"} => codec.pad = (4 - (Len(codec.arg) % 4)) % 4

\* C9: the artifact of an identifier is written at most once while it
\* exists, in every interleaving of the workers.
C9_WrittenAtMostOnce == \A n \in DOMAIN writes : writes[n] <= 1

\* C9 (amended): an artifact is written only by a request whose existence
\* check found no artifact, so it is written at most once per worker while
\* it exists.
C9_WrittenOnlyAfterAbsentCheck ==
    /\ \A p \in Procs : req[p].pc = "write" => ~req[p].exists_at_check
    /\ \A n \in DOMAIN writes : writes[n] <= NumProcs

\* two workers passed the check before either wrote, and both have written
C9_Witness ==
    /\ \E n \in DOMAIN writes : writes[n] = 2
    /\ \A p \in Procs : req[p].pc = "idle"

\* C10: started on an empty directory, every file of the store is named
\* <identifier>.png for the identifier of the normalization of a URL given
\* to an earlier Create, List enumerates it and its name decodes.
C10_StoreNamesAreIdentifiers ==
    \A q \in DOMAIN fs :
        /\ q.dir = QR_DIRECTORY
        /\ validators_url(fs[q].data)
        /\ q.name = RStrip(urlsafe_b64encode(Utf8Encode(urlunparse(urlparse(fs[q].data)))), PAD)
                    \o Png
        /\ q.name \in list_qr_codes(fs, QR_DIRECTORY)
        /\ Decodable(q.name)
        /\ decode_filename_to_url(StripSuffix(q.name)).val = urlunparse(urlparse(fs[q].data))

\* an artifact deleted and another still there
C10_Witness ==
    /\ resp.op = "delete"
    /\ resp.status = 204
    /\ ~Exists(fs, StorePath(resp.arg))
    /\ Cardinality(DOMAIN fs) >= 1

====
